---- MODULE Spec2Model ----
(***************************************************************************)
(* Recursive descent parser for the calculator language (src/parser.rs):   *)
(* Input (line-buffered reader), Scanner (one character of lookahead) and  *)
(* Parser (one token of lookahead, trace of predictions and matches).      *)
(*                                                                         *)
(* A character is a string: a printable ASCII character stands for itself, *)
(* "\n" and "\t" for the control characters, EOF for U+0004 and EACUTE for *)
(* U+00E9, a two-byte alphabetic character.  A Rust String is a sequence   *)
(* of characters; byte offsets are computed from the UTF-8 widths.         *)
(***************************************************************************)
EXTENDS Integers, Sequences, FiniteSets, TLC

VARIABLES
    input,      \* the whole content of stdin, fixed for the run
    stdin,      \* the part of stdin not yet fetched by read_line
    buf,        \* Input.buf
    line,       \* Input.line
    next_col,   \* Input.next_col (byte offset in buf)
    count,      \* bytes fetched by the last read_line into buf
    next_char,  \* Scanner.next_char
    next_tok,   \* Parser.next_tok
    stack,      \* the pending calls and matches of the recursive descent
    trace,      \* the lines printed on stdout
    pc,         \* "new", "running", "ok", "lexical" or "syntax"
    diag        \* the panic message, NoDiag while there is none

vars == <<input, stdin, buf, line, next_col, count, next_char, next_tok,
          stack, trace, pc, diag>>

-----------------------------------------------------------------------------
(* Characters *)

EOF == "^D"
NL == "\n"
EACUTE == "U+00E9"

LowerCase ==
    <<"a", "b", "c", "d", "e", "f", "g", "h", "i", "j", "k", "l", "m",
      "n", "o", "p", "q", "r", "s", "t", "u", "v", "w", "x", "y", "z">>

Digits ==
    <<"0", "1", "2", "3", "4", "5", "6", "7", "8", "9">>

Range(s) == {s[i] : i \in DOMAIN s}

IndexOf(s, c) == CHOOSE i \in DOMAIN s : s[i] = c

is_whitespace(c) == c \in {" ", "\t", NL, "\r"}

is_alphabetic(c) == c \in Range(LowerCase) \cup {EACUTE}

is_ascii_digit(c) == c \in Range(Digits)

is_alphanumeric(c) == is_alphabetic(c) \/ is_ascii_digit(c)

\* ch as u32
CodePoint(c) ==
    CASE c \in Range(LowerCase) -> 96 + IndexOf(LowerCase, c)
      [] c \in Range(Digits) -> 47 + IndexOf(Digits, c)
      [] c = EOF -> 4
      [] c = "\t" -> 9
      [] c = NL -> 10
      [] c = "\r" -> 13
      [] c = " " -> 32
      [] c = "!" -> 33
      [] c = "#" -> 35
      [] c = "(" -> 40
      [] c = ")" -> 41
      [] c = "*" -> 42
      [] c = "+" -> 43
      [] c = "-" -> 45
      [] c = "." -> 46
      [] c = "/" -> 47
      [] c = ":" -> 58
      [] c = "<" -> 60
      [] c = "=" -> 61
      [] c = ">" -> 62
      [] c = "_" -> 95
      [] c = EACUTE -> 233

\* number of bytes of the UTF-8 encoding of c
len_utf8(c) == IF c = EACUTE THEN 2 ELSE 1

RECURSIVE ByteLen(_)
ByteLen(s) == IF s = <<>> THEN 0 ELSE len_utf8(Head(s)) + ByteLen(Tail(s))

\* byte offset of the k-th character of s (1-based k, 0-based offset)
ByteOffset(s, k) == ByteLen(SubSeq(s, 1, k - 1))

\* index of the character of s that starts at byte offset b, 0 if there is none
CharIndexAt(s, b) ==
    IF \E k \in DOMAIN s : ByteOffset(s, k) = b
    THEN CHOOSE k \in DOMAIN s : ByteOffset(s, k) = b
    ELSE 0

is_char_boundary(s, i) == i = ByteLen(s) \/ CharIndexAt(s, i) # 0

SetMax(S) == CHOOSE m \in S : \A x \in S : x <= m

-----------------------------------------------------------------------------
(* Input buffering *)

\* Option<char> as a sequence of length at most one
unwrap_or(opt, d) == IF opt = <<>> THEN d ELSE opt[1]

\* The loop runs i from max(len, 1) - 2 down to 0 and returns the character
\* that starts at the first boundary it meets.
last_char(s) ==
    LET n == ByteLen(s)
        m == (IF n > 1 THEN n ELSE 1) - 1
        B == {i \in 0..(m - 1) : is_char_boundary(s, i)}
    IN  IF B = {} THEN <<>> ELSE <<s[CharIndexAt(s, SetMax(B))]>>

\* io::stdin().read_line: the characters up to and including the first NL
read_line(in) ==
    LET k == IF \E i \in DOMAIN in : in[i] = NL
             THEN CHOOSE i \in DOMAIN in :
                      in[i] = NL /\ \A j \in 1..(i - 1) : in[j] # NL
             ELSE Len(in)
    IN  [line |-> SubSeq(in, 1, k), rest |-> SubSeq(in, k + 1, Len(in))]

RECURSIVE advance_col(_, _)
advance_col(b, c) ==
    IF is_char_boundary(b, c + 1) THEN c + 1 ELSE advance_col(b, c + 1)

\* The new buffer after a fetch of `fetched` (count = its length in bytes)
refill(fetched) ==
    IF ByteLen(fetched) = 0 THEN <<EOF>>
    ELSE IF unwrap_or(last_char(fetched), " ") # NL THEN Append(fetched, NL)
    ELSE fetched

\* mutant: the column advances past the end sentinel as past any character
RECURSIVE getc_PastEOF(_)
getc_PastEOF(rd) ==
    LET col == rd.next_col
        k == CharIndexAt(rd.buf, col)
    IN  IF k # 0
        THEN LET ch == rd.buf[k]
             IN  [rd |-> [rd EXCEPT !.next_col = advance_col(rd.buf, col)],
                  sc |-> [ch |-> ch, line |-> rd.line, col |-> col]]
        ELSE LET rl == read_line(rd.stdin)
             IN  getc_PastEOF([buf |-> refill(rl.line),
                               line |-> rd.line + 1,
                               next_col |-> 0,
                               count |-> ByteLen(rl.line),
                               stdin |-> rl.rest])

RECURSIVE getc(_)
getc(rd) ==
    LET col == rd.next_col
        k == CharIndexAt(rd.buf, col)
    IN  IF k # 0
        THEN LET ch == rd.buf[k]
             IN  [rd |-> [rd EXCEPT !.next_col =
                              IF ch # EOF THEN advance_col(rd.buf, col) ELSE col],
                  sc |-> [ch |-> ch, line |-> rd.line, col |-> col]]
        ELSE LET rl == read_line(rd.stdin)
             IN  getc([buf |-> refill(rl.line),
                       line |-> rd.line + 1,
                       next_col |-> 0,
                       count |-> ByteLen(rl.line),
                       stdin |-> rl.rest])

-----------------------------------------------------------------------------
(* Scanner *)

Token(tp, text, ln, col) == [tp |-> tp, text |-> text, line |-> ln, col |-> col]

NoToken == Token("None", <<>>, 0, 0)

NoDiag == [msg |-> "", lead |-> "", got |-> "", code |-> 0, line |-> 0]

\* mutant: the diagnostic repeats the leading operator as the character found
ExpectedEq_GotLead(lead, ch) ==
    [msg |-> "extected '=' after", lead |-> lead, got |-> lead,
     code |-> CodePoint(lead), line |-> 0]

\* panic!("extected '=' after '<lead>', got '<ch>' (0x<code>)")
ExpectedEq(lead, ch) ==
    [msg |-> "extected '=' after", lead |-> lead, got |-> ch,
     code |-> CodePoint(ch), line |-> 0]

\* panic!("unexpected character '<ch>' (0x<code>)")
Unexpected(ch) ==
    [msg |-> "unexpected character", lead |-> "", got |-> ch,
     code |-> CodePoint(ch), line |-> 0]

\* panic!("syntax error on line <n>")
SyntaxError(n) ==
    [msg |-> "syntax error on line", lead |-> "", got |-> "", code |-> 0,
     line |-> n]

\* self.next_char = self.input.getc()
Advance(s) ==
    LET g == getc(s.input) IN [input |-> g.rd, next_char |-> g.sc]

RECURSIVE skip_whitespace(_)
skip_whitespace(s) ==
    IF is_whitespace(s.next_char.ch) THEN skip_whitespace(Advance(s)) ELSE s

\* mutant: a blank does not end the run
RECURSIVE ident_run_OverSpace(_, _)
ident_run_OverSpace(s, text) ==
    LET t1 == Append(text, s.next_char.ch)
        s1 == Advance(s)
    IN  IF ~(s1.next_char.ch \in {"_", " "} \/ is_alphanumeric(s1.next_char.ch))
        THEN [s |-> s1, text |-> t1]
        ELSE ident_run_OverSpace(s1, t1)

RECURSIVE ident_run(_, _)
ident_run(s, text) ==
    LET t1 == Append(text, s.next_char.ch)
        s1 == Advance(s)
    IN  IF ~(s1.next_char.ch = "_" \/ is_alphanumeric(s1.next_char.ch))
        THEN [s |-> s1, text |-> t1]
        ELSE ident_run(s1, t1)

\* mutant: a `.` ends the run
RECURSIVE digit_run_NoDot(_, _)
digit_run_NoDot(s, text) ==
    LET t1 == Append(text, s.next_char.ch)
        s1 == Advance(s)
    IN  IF ~is_ascii_digit(s1.next_char.ch)
        THEN [s |-> s1, text |-> t1]
        ELSE digit_run_NoDot(s1, t1)

RECURSIVE digit_run(_, _)
digit_run(s, text) ==
    LET t1 == Append(text, s.next_char.ch)
        s1 == Advance(s)
    IN  IF ~is_ascii_digit(s1.next_char.ch) /\ s1.next_char.ch # "."
        THEN [s |-> s1, text |-> t1]
        ELSE digit_run(s1, t1)

\* mutant: trunc is not in the table
keyword_NoTrunc(text) ==
    CASE text = <<"r", "e", "a", "d">> -> "Read"
      [] text = <<"w", "r", "i", "t", "e">> -> "Write"
      [] text = <<"i", "f">> -> "If"
      [] text = <<"f", "i">> -> "Fi"
      [] text = <<"d", "o">> -> "Do"
      [] text = <<"o", "d">> -> "Od"
      [] text = <<"i", "n", "t">> -> "Int"
      [] text = <<"r", "e", "a", "l">> -> "Real"
      [] text = <<"f", "l", "o", "a", "t">> -> "Float"
      [] text = <<"c", "h", "e", "c", "k">> -> "Check"
      [] OTHER -> "Ident"

keyword(text) ==
    CASE text = <<"r", "e", "a", "d">> -> "Read"
      [] text = <<"w", "r", "i", "t", "e">> -> "Write"
      [] text = <<"i", "f">> -> "If"
      [] text = <<"f", "i">> -> "Fi"
      [] text = <<"d", "o">> -> "Do"
      [] text = <<"o", "d">> -> "Od"
      [] text = <<"i", "n", "t">> -> "Int"
      [] text = <<"r", "e", "a", "l">> -> "Real"
      [] text = <<"t", "r", "u", "n", "c">> -> "Trunc"
      [] text = <<"f", "l", "o", "a", "t">> -> "Float"
      [] text = <<"c", "h", "e", "c", "k">> -> "Check"
      [] OTHER -> "Ident"

Returned(s, tok) == [s |-> s, tok |-> tok, err |-> NoDiag]

Panicked(s, d) == [s |-> s, tok |-> NoToken, err |-> d]

\* `:`, `=`, `!`: the second character must be `=`
need_eq(s1, c, tp, ln, col) ==
    IF s1.next_char.ch # "="
    THEN Panicked(s1, ExpectedEq(c, s1.next_char.ch))
    ELSE Returned(Advance(s1), Token(tp, <<c, "=">>, ln, col))

\* mutant: the character after a lone `<` or `>` is consumed as well
may_eq_Greedy(s1, c, tp, tpEq, ln, col) ==
    IF s1.next_char.ch = "="
    THEN Returned(Advance(s1), Token(tpEq, <<c, "=">>, ln, col))
    ELSE Returned(Advance(s1), Token(tp, <<c>>, ln, col))

\* `<`, `>`: the second character may be `=`
may_eq(s1, c, tp, tpEq, ln, col) ==
    IF s1.next_char.ch = "="
    THEN Returned(Advance(s1), Token(tpEq, <<c, "=">>, ln, col))
    ELSE Returned(s1, Token(tp, <<c>>, ln, col))

\* the character named by the `unexpected character` panic
unexpected_char(c, s1) == s1.next_char.ch

\* the tail of scan(): one character consumed, classified by direct match
operator(s, ln, col) ==
    LET c == s.next_char.ch
        s1 == Advance(s)
    IN  CASE c = ":" -> need_eq(s1, c, "Gets", ln, col)
          [] c = "=" -> need_eq(s1, c, "EqualTo", ln, col)
          [] c = "!" -> need_eq(s1, c, "NEqualTo", ln, col)
          [] c = "<" -> may_eq(s1, c, "Lesser", "LesserEq", ln, col)
          [] c = ">" -> may_eq(s1, c, "Greater", "GreaterEq", ln, col)
          [] c = "+" -> Returned(s1, Token("Plus", <<c>>, ln, col))
          [] c = "-" -> Returned(s1, Token("Minus", <<c>>, ln, col))
          [] c = "*" -> Returned(s1, Token("Times", <<c>>, ln, col))
          [] c = "/" -> Returned(s1, Token("DivBy", <<c>>, ln, col))
          [] c = "(" -> Returned(s1, Token("LParen", <<c>>, ln, col))
          [] c = ")" -> Returned(s1, Token("RParen", <<c>>, ln, col))
          [] OTHER -> Panicked(s1, Unexpected(unexpected_char(c, s1)))

scan(s0) ==
    LET s == skip_whitespace(s0)
        col == s.next_char.col
        ln == s.next_char.line
    IN  IF s.next_char.ch = EOF
        THEN Returned(s, Token("End", <<>>, ln, col))
        ELSE IF is_alphabetic(s.next_char.ch)
        THEN LET r == ident_run(s, <<>>)
             IN  Returned(r.s, Token(keyword(r.text), r.text, ln, col))
        ELSE IF is_ascii_digit(s.next_char.ch)
        THEN LET r == digit_run(s, <<>>)
             IN  Returned(r.s, Token("ILit", r.text, ln, col))
        ELSE operator(s, ln, col)

-----------------------------------------------------------------------------
(* Parser *)

Call(nt) == [k |-> "call", a |-> nt]

Eat(tp) == [k |-> "eat", a |-> tp]

\* println!("predict <rhs>")
Predict(rhs) == [kind |-> "predict", what |-> rhs, suffix |-> <<>>]

\* mutant: the text of a literal is not printed
shown_text_NoLit == {"Ident"}

\* the categories whose text eat() prints
shown_text == {"Ident", "ILit", "RLit"}

\* print!("matched {:?}", expected), then ": <text>" for the shown categories
Matched(tp, text) ==
    [kind |-> "matched", what |-> tp,
     suffix |-> IF tp \in shown_text THEN <<":", " ">> \o text ELSE <<>>]

Predicted(rhs, body) == [ok |-> TRUE, predict |-> rhs, body |-> body]

Rejected == [ok |-> FALSE, predict |-> "", body |-> <<>>]

\* mutant: End left out of the FIRST set of program
program_first_NoEnd ==
    {"Ident", "Read", "Write", "Int", "Real", "If", "Do", "Check"}

program_first ==
    {"Ident", "Read", "Write", "End", "Int", "Real", "If", "Do", "Check"}

program_match(tp) ==
    IF tp \in program_first
    THEN Predicted("program --> stmt_list $$", <<Call("stmt_list"), Eat("End")>>)
    ELSE Rejected

stmt_list_first ==
    {"Ident", "Read", "Write", "Int", "Real", "If", "Do", "Check"}

stmt_list_epsilon == {"End"}

stmt_list_match(tp) ==
    IF tp \in stmt_list_first
    THEN Predicted("stmt_list --> stmt stmt_list",
                   <<Call("stmt"), Call("stmt_list")>>)
    ELSE IF tp \in stmt_list_epsilon
    THEN Predicted("stmt_list --> epsilon", <<>>)
    ELSE Rejected

types_epsilon == {"End"}

types_match(tp) ==
    CASE tp = "Int" -> Predicted("type --> int", <<Eat("Int")>>)
      [] tp = "Real" -> Predicted("type --> real", <<Eat("Real")>>)
      [] tp \in types_epsilon /\ tp \notin {"Int", "Real"} ->
            Predicted("type --> epsilon", <<>>)
      [] OTHER -> Rejected

\* mutant: Ident left out of the FIRST set of comp
comp_first_NoIdent == {"ILit", "RLit", "LParen"}

comp_first == {"Ident", "ILit", "RLit", "LParen"}

comp_match(tp) ==
    IF tp \in comp_first
    THEN Predicted("comp --> expr comp_op expr",
                   <<Call("expr"), Call("comp_op"), Call("expr")>>)
    ELSE Rejected

stmt_match(tp) ==
    CASE tp = "Ident" ->
            Predicted("stmt --> ident gets expr",
                      <<Eat("Ident"), Eat("Gets"), Call("expr")>>)
      [] tp = "Read" ->
            Predicted("stmt --> read TP ident",
                      <<Eat("Read"), Call("types"), Eat("Ident")>>)
      [] tp = "Write" ->
            Predicted("stmt --> write expr", <<Eat("Write"), Call("expr")>>)
      [] tp = "If" ->
            Predicted("stmt --> if comp stmt_list fi",
                      <<Eat("If"), Call("comp"), Call("stmt_list"), Eat("Fi")>>)
      [] tp = "Do" ->
            Predicted("stmt --> do stmt_list od",
                      <<Eat("Do"), Call("stmt_list"), Eat("Od")>>)
      [] tp = "Check" ->
            Predicted("stmt --> check comp", <<Eat("Check"), Call("comp")>>)
      [] tp = "Int" ->
            Predicted("stmt --> int ident gets expr",
                      <<Eat("Int"), Eat("Ident"), Eat("Gets"), Call("expr")>>)
      [] tp = "Real" ->
            Predicted("stmt --> real ident gets expr",
                      <<Eat("Real"), Eat("Ident"), Eat("Gets"), Call("expr")>>)
      [] OTHER -> Rejected

expr_first == {"Ident", "ILit", "RLit", "LParen"}

expr_match(tp) ==
    IF tp \in expr_first
    THEN Predicted("expr --> term term_tail", <<Call("term"), Call("term_tail")>>)
    ELSE Rejected

term_first == {"Ident", "ILit", "RLit", "LParen"}

term_match(tp) ==
    IF tp \in term_first
    THEN Predicted("term --> factor factor_tail",
                   <<Call("factor"), Call("factor_tail")>>)
    ELSE Rejected

term_tail_first == {"Plus", "Minus"}

\* mutant: Write left out of the epsilon-selection set of term_tail
term_tail_epsilon_NoWrite == {"RParen", "Ident", "Read", "End"}

term_tail_epsilon == {"RParen", "Ident", "Read", "Write", "End"}

term_tail_match(tp) ==
    IF tp \in term_tail_first
    THEN Predicted("term_tail --> add_op term term_tail",
                   <<Call("add_op"), Call("term"), Call("term_tail")>>)
    ELSE IF tp \in term_tail_epsilon
    THEN Predicted("term_tail --> epsilon", <<>>)
    ELSE Rejected

\* mutant: the closing parenthesis is not matched
factor_match_NoRParen(tp) ==
    CASE tp = "Ident" -> Predicted("factor --> ident", <<Eat("Ident")>>)
      [] tp = "ILit" -> Predicted("factor --> i_lit", <<Eat("ILit")>>)
      [] tp = "RLit" -> Predicted("factor --> r_lit", <<Eat("RLit")>>)
      [] tp = "LParen" ->
            Predicted("factor --> lparen expr rparen",
                      <<Eat("LParen"), Call("expr")>>)
      [] OTHER -> Rejected

factor_match(tp) ==
    CASE tp = "Ident" -> Predicted("factor --> ident", <<Eat("Ident")>>)
      [] tp = "ILit" -> Predicted("factor --> i_lit", <<Eat("ILit")>>)
      [] tp = "RLit" -> Predicted("factor --> r_lit", <<Eat("RLit")>>)
      [] tp = "LParen" ->
            Predicted("factor --> lparen expr rparen",
                      <<Eat("LParen"), Call("expr"), Eat("RParen")>>)
      [] OTHER -> Rejected

factor_tail_first == {"Times", "DivBy"}

factor_tail_epsilon ==
    {"Plus", "Minus", "RParen", "Ident", "Read", "Write", "End"}

factor_tail_match(tp) ==
    IF tp \in factor_tail_first
    THEN Predicted("factor_tail --> mul_op factor factor_tail",
                   <<Call("mul_op"), Call("factor"), Call("factor_tail")>>)
    ELSE IF tp \in factor_tail_epsilon
    THEN Predicted("factor_tail --> epsilon", <<>>)
    ELSE Rejected

comp_op_match(tp) ==
    CASE tp = "Greater" -> Predicted("comp_op --> greater", <<Eat("Greater")>>)
      [] tp = "Lesser" -> Predicted("comp_op --> lesser", <<Eat("Lesser")>>)
      [] tp = "EqualTo" -> Predicted("comp_op --> equalto", <<Eat("EqualTo")>>)
      [] tp = "NEqualTo" ->
            Predicted("comp_op --> nequalto", <<Eat("NEqualTo")>>)
      [] tp = "GreaterEq" ->
            Predicted("comp_op --> greatereq", <<Eat("GreaterEq")>>)
      [] tp = "LesserEq" ->
            Predicted("comp_op --> lessereq", <<Eat("LesserEq")>>)
      [] OTHER -> Rejected

add_op_match(tp) ==
    CASE tp = "Plus" -> Predicted("add_op --> plus", <<Eat("Plus")>>)
      [] tp = "Minus" -> Predicted("add_op --> minus", <<Eat("Minus")>>)
      [] OTHER -> Rejected

mul_op_match(tp) ==
    CASE tp = "Times" -> Predicted("mul_op --> times", <<Eat("Times")>>)
      [] tp = "DivBy" -> Predicted("mul_op --> div_by", <<Eat("DivBy")>>)
      [] OTHER -> Rejected

-----------------------------------------------------------------------------
(* State machine *)

RdState ==
    [buf |-> buf, line |-> line, next_col |-> next_col, count |-> count,
     stdin |-> stdin]

ScState == [input |-> RdState, next_char |-> next_char]

\* the scanner and its reader after a call of scan()
ScannerBecomes(s) ==
    /\ buf' = s.input.buf
    /\ line' = s.input.line
    /\ next_col' = s.input.next_col
    /\ count' = s.input.count
    /\ stdin' = s.input.stdin
    /\ next_char' = s.next_char

\* parse() returns when the last pending call or match has returned
Continue(stk) == IF stk = <<>> THEN "ok" ELSE "running"

\* mutant: a rejected lookahead is reported and the call is given up, the
\* caller going on
Expand_Recover(nt, sel) ==
    /\ pc = "running"
    /\ stack # <<>>
    /\ Head(stack) = Call(nt)
    /\ IF sel.ok
       THEN /\ trace' = Append(trace, Predict(sel.predict))
            /\ stack' = sel.body \o Tail(stack)
            /\ pc' = Continue(sel.body \o Tail(stack))
            /\ diag' = diag
       ELSE /\ pc' = Continue(Tail(stack))
            /\ diag' = SyntaxError(next_tok.line)
            /\ stack' = Tail(stack)
            /\ trace' = trace
    /\ UNCHANGED <<input, stdin, buf, line, next_col, count, next_char, next_tok>>

\* mutant: a rejected lookahead is tried again
Expand_Retry(nt, sel) ==
    /\ pc = "running"
    /\ stack # <<>>
    /\ Head(stack) = Call(nt)
    /\ IF sel.ok
       THEN /\ trace' = Append(trace, Predict(sel.predict))
            /\ stack' = sel.body \o Tail(stack)
            /\ pc' = Continue(sel.body \o Tail(stack))
            /\ diag' = diag
       ELSE UNCHANGED <<pc, diag, trace, stack>>
    /\ UNCHANGED <<input, stdin, buf, line, next_col, count, next_char, next_tok>>

\* One nonterminal operation: select a production on the lookahead, print
\* the prediction and go on with its right-hand side, or panic.
Expand(nt, sel) ==
    /\ pc = "running"
    /\ stack # <<>>
    /\ Head(stack) = Call(nt)
    /\ IF sel.ok
       THEN /\ trace' = Append(trace, Predict(sel.predict))
            /\ stack' = sel.body \o Tail(stack)
            /\ pc' = Continue(sel.body \o Tail(stack))
            /\ diag' = diag
       ELSE /\ pc' = "syntax"
            /\ diag' = SyntaxError(next_tok.line)
            /\ UNCHANGED <<trace, stack>>
    /\ UNCHANGED <<input, stdin, buf, line, next_col, count, next_char, next_tok>>

\* self.next_tok = self.scanner.scan(); self.program()
parse ==
    /\ pc = "new"
    /\ LET r == scan(ScState)
       IN  /\ ScannerBecomes(r.s)
           /\ IF r.err = NoDiag
              THEN /\ next_tok' = r.tok
                   /\ stack' = <<Call("program")>>
                   /\ pc' = "running"
                   /\ diag' = diag
              ELSE /\ pc' = "lexical"
                   /\ diag' = r.err
                   /\ UNCHANGED <<next_tok, stack>>
    /\ UNCHANGED <<input, trace>>

\* mutant: the matched line is printed but no token is fetched
eat_NoAdvance ==
    /\ pc = "running"
    /\ stack # <<>>
    /\ Head(stack).k = "eat"
    /\ LET expected == Head(stack).a
       IN  IF next_tok.tp = expected
           THEN /\ trace' = Append(trace, Matched(expected, next_tok.text))
                /\ stack' = Tail(stack)
                /\ pc' = Continue(Tail(stack))
                /\ UNCHANGED <<stdin, buf, line, next_col, count, next_char,
                               next_tok, diag>>
           ELSE /\ pc' = "syntax"
                /\ diag' = SyntaxError(next_tok.line)
                /\ UNCHANGED <<stdin, buf, line, next_col, count, next_char,
                               next_tok, stack, trace>>
    /\ UNCHANGED input

eat ==
    /\ pc = "running"
    /\ stack # <<>>
    /\ Head(stack).k = "eat"
    /\ LET expected == Head(stack).a
       IN  IF next_tok.tp = expected
           THEN LET r == scan(ScState)
                IN  /\ trace' = Append(trace, Matched(expected, next_tok.text))
                    /\ ScannerBecomes(r.s)
                    /\ IF r.err = NoDiag
                       THEN /\ next_tok' = r.tok
                            /\ stack' = Tail(stack)
                            /\ pc' = Continue(Tail(stack))
                            /\ diag' = diag
                       ELSE /\ pc' = "lexical"
                            /\ diag' = r.err
                            /\ UNCHANGED <<next_tok, stack>>
           ELSE /\ pc' = "syntax"
                /\ diag' = SyntaxError(next_tok.line)
                /\ UNCHANGED <<stdin, buf, line, next_col, count, next_char,
                               next_tok, stack, trace>>
    /\ UNCHANGED input

program == Expand("program", program_match(next_tok.tp))

stmt_list == Expand("stmt_list", stmt_list_match(next_tok.tp))

types == Expand("types", types_match(next_tok.tp))

comp == Expand("comp", comp_match(next_tok.tp))

stmt == Expand("stmt", stmt_match(next_tok.tp))

expr == Expand("expr", expr_match(next_tok.tp))

term == Expand("term", term_match(next_tok.tp))

term_tail == Expand("term_tail", term_tail_match(next_tok.tp))

factor == Expand("factor", factor_match(next_tok.tp))

factor_tail == Expand("factor_tail", factor_tail_match(next_tok.tp))

comp_op == Expand("comp_op", comp_op_match(next_tok.tp))

add_op == Expand("add_op", add_op_match(next_tok.tp))

mul_op == Expand("mul_op", mul_op_match(next_tok.tp))

-----------------------------------------------------------------------------
(* Inputs *)

RECURSIVE Concat(_)
Concat(ss) == IF ss = <<>> THEN <<>> ELSE Head(ss) \o Concat(Tail(ss))

SP == <<" ">>

kw_read == <<"r", "e", "a", "d">>

kw_write == <<"w", "r", "i", "t", "e">>

kw_if == <<"i", "f">>

kw_fi == <<"f", "i">>

kw_do == <<"d", "o">>

kw_od == <<"o", "d">>

kw_check == <<"c", "h", "e", "c", "k">>

kw_int == <<"i", "n", "t">>

kw_real == <<"r", "e", "a", "l">>

GETS == <<":", "=">>

EQ == <<"=", "=">>

\* the examples of the specification, section 8
Example1 ==
    Concat(<<kw_int, SP, <<"x">>, SP, GETS, SP, <<"3">>, SP, kw_write, SP, <<"x">>>>)

Example3 == <<"x", " ", ":", " ", "y">>

Example4 == Concat(<<kw_if, SP, <<"x">>, SP, kw_fi>>)

Example5 ==
    Concat(<<kw_do, SP, kw_if, SP, <<"x">>, SP, EQ, SP, <<"y">>, SP,
             kw_write, SP, <<"x">>, SP, kw_fi, SP, kw_od>>)

\* `if x < 3 do write x od fi`
NestedIfDo ==
    Concat(<<kw_if, SP, <<"x">>, SP, <<"<">>, SP, <<"3">>, SP, kw_do, SP,
             kw_write, SP, <<"x">>, SP, kw_od, SP, kw_fi>>)

\* further programs, so that every production is tried
Examples ==
    { Example1, Example3, Example4, Example5, NestedIfDo,
      Concat(<<kw_real, SP, <<"x">>, GETS, <<"(", "3", "+", "y", ")", "*", "2">>,
               <<NL>>, kw_write, SP, <<"x", "-", "1">>, <<NL>>>>),
      Concat(<<kw_if, SP, <<"(", "x", ")", "*", "3">>, <<NL>>, <<NL>>, kw_fi>>),
      Concat(<<kw_real, SP, <<"y">>, SP, GETS, SP, <<"x">>, <<NL>>, kw_write, SP, <<"3">>>>),
      Concat(<<kw_if, SP, <<"x">>, <<NL>>, kw_fi, <<NL>>>>),
      Concat(<<kw_read, SP, kw_int, SP, <<"x">>, <<NL>>>>),
      Concat(<<kw_read, SP, kw_real, SP, <<"x">>>>),
      Concat(<<kw_check, SP, <<"x">>, SP, kw_write>>),
      Concat(<<kw_check, SP, <<"x">>, SP, <<"<", "=">>, SP, <<"3">>>>),
      Concat(<<<<"x">>, GETS, <<"(">>, <<"3">>, <<"+">>, <<"x">>, <<")">>, <<"*">>,
               <<"3", ".", "5">>, <<"-">>, <<"x">>, <<"/">>, <<"y">>, <<NL>>>>),
      Concat(<<<<"x">>, GETS, <<"3">>, SP, kw_int, SP, <<"y">>, GETS, <<"3">>>>),
      Concat(<<kw_write, SP, <<"x">>, <<NL>>, kw_do, SP, kw_od>>),
      Concat(<<<<"t", "r", "u", "n", "c">>, SP, <<"f", "l", "o", "a", "t">>,
               SP, kw_fi>>),
      Concat(<<kw_read, <<"e", "r">>, SP, kw_if, <<"_">>, SP, kw_int, <<"x">>,
               <<NL>>, <<"x">>, kw_real>>),
      Concat(<<<<"3", ".", "5", ".", "2">>, SP, <<"3", "3">>, <<"x">>, <<NL>>>>) }

Pieces ==
    { <<"x">>, <<"3">>, SP, <<NL>>, GETS, <<":">>, <<"=">>, <<"#">>, <<EOF>>,
      kw_write, kw_read, <<"(">>, <<"+">>, <<".">>, <<"_">>, <<EACUTE>> }

MaxPieces == 3

Init ==
    /\ \/ input \in Examples
       \/ \E n \in 0..MaxPieces : \E p \in [1..n -> Pieces] : input = Concat(p)
    /\ stdin = input
    /\ buf = <<>>
    /\ line = 0
    /\ next_col = 0
    /\ count = 0
    /\ next_char = [ch |-> " ", line |-> 0, col |-> 0]
    /\ next_tok = Token("Begin", <<>>, 0, 0)
    /\ stack = <<>>
    /\ trace = <<>>
    /\ pc = "new"
    /\ diag = NoDiag

Next ==
    \/ parse
    \/ eat
    \/ program
    \/ stmt_list
    \/ types
    \/ comp
    \/ stmt
    \/ expr
    \/ term
    \/ term_tail
    \/ factor
    \/ factor_tail
    \/ comp_op
    \/ add_op
    \/ mul_op

Spec == Init /\ [][Next]_vars

-----------------------------------------------------------------------------
(* The scanner on its own: scan() called again and again on a fresh scanner, *)
(* the token it returned kept in next_tok.                                  *)

ScanInit ==
    /\ \/ input \in Examples
       \/ \E n \in 0..MaxPieces : \E p \in [1..n -> Pieces] : input = Concat(p)
    /\ stdin = input
    /\ buf = <<>>
    /\ line = 0
    /\ next_col = 0
    /\ count = 0
    /\ next_char = [ch |-> " ", line |-> 0, col |-> 0]
    /\ next_tok = Token("Begin", <<>>, 0, 0)
    /\ stack = <<>>
    /\ trace = <<>>
    /\ pc = "scan"
    /\ diag = NoDiag

\* one call of scan(): a token is returned, or the call panics
scan_step ==
    /\ pc = "scan"
    /\ LET r == scan(ScState)
       IN  /\ ScannerBecomes(r.s)
           /\ IF r.err = NoDiag
              THEN /\ next_tok' = r.tok
                   /\ UNCHANGED <<pc, diag>>
              ELSE /\ pc' = "scan_panic"
                   /\ diag' = r.err
                   /\ UNCHANGED next_tok
    /\ UNCHANGED <<input, stack, trace>>

ScanSpec == ScanInit /\ [][scan_step]_vars

\* the operations of the nonterminals
Expansions ==
    \/ program
    \/ stmt_list
    \/ types
    \/ comp
    \/ stmt
    \/ expr
    \/ term
    \/ term_tail
    \/ factor
    \/ factor_tail
    \/ comp_op
    \/ add_op
    \/ mul_op

\* parse() or eat() is the operation to run next: both are enabled whenever
\* they are the next operation, and each of their steps changes pc or trace
TokenPending ==
    \/ pc = "new"
    \/ pc = "running" /\ stack # <<>> /\ Head(stack).k = "eat"

\* weak fairness of parse \/ eat, its enabling condition written out
FairTokens == []<>(~TokenPending) \/ []<><<parse \/ eat>>_vars

\* parse() is a sequential program: the operation to run next does run, until
\* parse() returns or panics
LiveSpec == Init /\ [][Next]_vars /\ WF_vars(Expansions) /\ FairTokens

-----------------------------------------------------------------------------
(* The documented grammar, as a recognizer of sequences of token categories. *)
(* G_n(t, i) is the set of positions j such that the nonterminal n derives  *)
(* t[i..j-1].                                                               *)

G_eat(t, i, tp) == IF i <= Len(t) /\ t[i] = tp THEN {i + 1} ELSE {}

Then(S, F(_)) == UNION {F(j) : j \in S}

RECURSIVE G_stmt_list(_, _)
RECURSIVE G_stmt(_, _)
RECURSIVE G_comp(_, _)
RECURSIVE G_expr(_, _)
RECURSIVE G_term(_, _)
RECURSIVE G_term_tail(_, _)
RECURSIVE G_factor(_, _)
RECURSIVE G_factor_tail(_, _)

G_type(t, i) == G_eat(t, i, "Int") \cup G_eat(t, i, "Real") \cup {i}

G_comp_op(t, i) ==
    UNION {G_eat(t, i, tp) : tp \in {"Greater", "Lesser", "EqualTo", "NEqualTo",
                                      "GreaterEq", "LesserEq"}}

G_add_op(t, i) == G_eat(t, i, "Plus") \cup G_eat(t, i, "Minus")

G_mul_op(t, i) == G_eat(t, i, "Times") \cup G_eat(t, i, "DivBy")

G_stmt_list(t, i) == {i} \cup Then(G_stmt(t, i), LAMBDA j : G_stmt_list(t, j))

G_decl(t, i) ==
    Then(Then(G_eat(t, i, "Ident"), LAMBDA j : G_eat(t, j, "Gets")),
         LAMBDA j : G_expr(t, j))

G_stmt(t, i) ==
    UNION {
        G_decl(t, i),
        Then(Then(G_eat(t, i, "Read"), LAMBDA j : G_type(t, j)),
             LAMBDA j : G_eat(t, j, "Ident")),
        Then(G_eat(t, i, "Write"), LAMBDA j : G_expr(t, j)),
        Then(Then(Then(G_eat(t, i, "If"), LAMBDA j : G_comp(t, j)),
                  LAMBDA j : G_stmt_list(t, j)),
             LAMBDA j : G_eat(t, j, "Fi")),
        Then(Then(G_eat(t, i, "Do"), LAMBDA j : G_stmt_list(t, j)),
             LAMBDA j : G_eat(t, j, "Od")),
        Then(G_eat(t, i, "Check"), LAMBDA j : G_comp(t, j)),
        Then(G_eat(t, i, "Int"), LAMBDA j : G_decl(t, j)),
        Then(G_eat(t, i, "Real"), LAMBDA j : G_decl(t, j)) }

G_comp(t, i) ==
    Then(Then(G_expr(t, i), LAMBDA j : G_comp_op(t, j)), LAMBDA j : G_expr(t, j))

G_expr(t, i) == Then(G_term(t, i), LAMBDA j : G_term_tail(t, j))

G_term(t, i) == Then(G_factor(t, i), LAMBDA j : G_factor_tail(t, j))

G_term_tail(t, i) ==
    {i} \cup Then(Then(G_add_op(t, i), LAMBDA j : G_term(t, j)),
                  LAMBDA j : G_term_tail(t, j))

G_factor(t, i) ==
    UNION {
        G_eat(t, i, "Ident"),
        G_eat(t, i, "ILit"),
        G_eat(t, i, "RLit"),
        Then(Then(G_eat(t, i, "LParen"), LAMBDA j : G_expr(t, j)),
             LAMBDA j : G_eat(t, j, "RParen")) }

G_factor_tail(t, i) ==
    {i} \cup Then(Then(G_mul_op(t, i), LAMBDA j : G_factor(t, j)),
                  LAMBDA j : G_factor_tail(t, j))

\* program --> stmt_list $$
G_program(t) ==
    (Len(t) + 1) \in Then(G_stmt_list(t, 1), LAMBDA j : G_eat(t, j, "End"))

-----------------------------------------------------------------------------
(* The tokens of an input: scan() called until End or a panic *)

NewScanner(in) ==
    [input |-> [buf |-> <<>>, line |-> 0, next_col |-> 0, count |-> 0,
                stdin |-> in],
     next_char |-> [ch |-> " ", line |-> 0, col |-> 0]]

RECURSIVE scan_all(_, _)
scan_all(s, toks) ==
    LET r == scan(s)
    IN  IF r.err # NoDiag THEN [toks |-> toks, err |-> r.err]
        ELSE IF r.tok.tp = "End"
        THEN [toks |-> Append(toks, r.tok), err |-> NoDiag]
        ELSE scan_all(r.s, Append(toks, r.tok))

Categories(toks) == [i \in DOMAIN toks |-> toks[i].tp]

\* the input scans without a panic and its categories are a sentence
IsSentence(in) ==
    LET r == scan_all(NewScanner(in), <<>>)
    IN  r.err = NoDiag /\ G_program(Categories(r.toks))

Final == {"ok", "lexical", "syntax"}

MatchedEnd == Matched("End", <<>>)

-----------------------------------------------------------------------------
(* Positions in the raw input *)

\* the characters of buf that came from stdin and are at or after the cursor
UnreadInBuf ==
    {k \in DOMAIN buf :
        ByteOffset(buf, k) >= next_col /\ ByteOffset(buf, k) < count}

\* number of characters of the input that getc() has moved its cursor past
Delivered == Len(input) - Len(stdin) - Cardinality(UnreadInBuf)

\* the scanner's lookahead character is a character of the input, not the
\* terminator the reader appends nor the end sentinel
NextCharIsInput ==
    next_char.ch # EOF /\ next_char.line = line /\ next_char.col < count

\* offset (1-based) of the last input character the scanner has consumed,
\* its lookahead character excluded
Consumed == Delivered - (IF NextCharIsInput THEN 1 ELSE 0)

\* offset of the first character of the parser's lookahead token; for End,
\* the point where the stream ends
TokStart ==
    IF next_tok.tp = "End" THEN Delivered + 1
    ELSE Consumed - Len(next_tok.text) + 1

\* 1 + the number of line terminators before offset k
SourceLine(k) ==
    1 + Cardinality({i \in 1..(k - 1) : i <= Len(input) /\ input[i] = NL})

-----------------------------------------------------------------------------
(* Token boundaries over the raw input (section 4.2 of the specification) *)

\* end of the maximal run of characters satisfying Ok that starts at i
RunEnd(in, i, Ok(_)) ==
    CHOOSE j \in i..(Len(in) + 1) :
        /\ \A k \in i..(j - 1) : Ok(in[k])
        /\ j = Len(in) + 1 \/ ~Ok(in[j])

\* offset of the first character at which no token can start or continue:
\* a character that starts no token (a U+0004 in the input is one: the end
\* sentinel stands for the exhausted stream only), or `:`, `=`, `!` not
\* followed by `=`; 0 if the input has none
RECURSIVE first_bad(_, _)
first_bad(in, i) ==
    IF i > Len(in) THEN 0
    ELSE LET c == in[i]
             eq == i < Len(in) /\ in[i + 1] = "="
         IN  CASE is_whitespace(c) -> first_bad(in, i + 1)
               [] is_alphabetic(c) ->
                     first_bad(in, RunEnd(in, i + 1,
                                   LAMBDA x : x = "_" \/ is_alphanumeric(x)))
               [] is_ascii_digit(c) ->
                     first_bad(in, RunEnd(in, i + 1,
                                   LAMBDA x : x = "." \/ is_ascii_digit(x)))
               [] c \in {":", "=", "!"} ->
                     IF eq THEN first_bad(in, i + 2) ELSE i
               [] c \in {"<", ">"} ->
                     IF eq THEN first_bad(in, i + 2) ELSE first_bad(in, i + 1)
               [] c \in {"+", "-", "*", "/", "(", ")"} -> first_bad(in, i + 1)
               [] OTHER -> i

FirstBad == first_bad(input, 1)

\* the character after offset k as the reader delivers it: the next input
\* character, or the terminator appended to an unterminated last line
CharAfter(k) == IF k < Len(input) THEN input[k + 1] ELSE NL

\* the parser's lookahead is still the token of the last `matched` line
LastMatchIsLookahead ==
    /\ trace # <<>>
    /\ trace[Len(trace)] = Matched(next_tok.tp, next_tok.text)

\* no token was returned by the failing scan(): the lookahead is the Begin
\* dummy (failure in parse) or the token just matched (failure in eat)
NoTokenAfter ==
    IF trace = <<>> THEN next_tok.tp = "Begin" ELSE LastMatchIsLookahead

\* an in-band U+0004 that the scanner holds as its lookahead character
HeldSentinel ==
    /\ next_char.ch = EOF
    /\ next_char.line = line
    /\ next_char.col = next_col
    /\ next_col < count

\* characters of the input that no getc() call has returned
Undelivered ==
    Len(stdin) + Cardinality(UnreadInBuf) - (IF HeldSentinel THEN 1 ELSE 0)

WsOnly(in) == \A i \in DOMAIN in : is_whitespace(in[i])

IsPrefix(a, b) == Len(a) <= Len(b) /\ SubSeq(b, 1, Len(a)) = a

InputTokens == scan_all(NewScanner(input), <<>>).toks

-----------------------------------------------------------------------------
(* Claims *)

\* C1: for every input whose token sequence is a sentence of the documented
\* grammar, parse() returns without a lexical or syntax error and the trace
\* contains exactly one `matched End` line, its last line.
C1_SentenceAccepted ==
    (pc \in Final /\ IsSentence(input)) =>
        /\ pc = "ok"
        /\ trace # <<>>
        /\ trace[Len(trace)] = MatchedEnd
        /\ Cardinality({i \in DOMAIN trace : trace[i] = MatchedEnd}) = 1

\* C2: whenever the parser rejects the lookahead token, the run aborts with
\* a syntax error whose reported line is the source line of that lookahead
\* token, the first token not yet consumed.
C2_SyntaxErrorLine ==
    pc = "syntax" =>
        /\ diag.msg = "syntax error on line"
        /\ diag.line = SourceLine(TokStart)

\* C3: for any input that contains an unrecognized character, or a `:`,
\* `=` or `!` not immediately followed by `=`, the run aborts with a
\* lexical error and no token is produced after the lexical failure.
C3_BadCharIsLexicalError ==
    (pc \in Final /\ FirstBad # 0) => (pc = "lexical" /\ NoTokenAfter)

\* C4: whenever parse() returns successfully, every character of the input
\* has been delivered by the source reader; none remains unread.
C4_WholeInputConsumed == pc = "ok" => Undelivered = 0

EmptyProgramTrace ==
    << Predict("program --> stmt_list $$"),
       Predict("stmt_list --> epsilon"),
       MatchedEnd >>

\* C5: for an input that is empty or only whitespace and line terminators,
\* the complete trace is the three lines `predict program --> stmt_list $$`,
\* `predict stmt_list --> epsilon`, `matched End`, and parse() returns
\* without error.
C5_EmptyProgram ==
    WsOnly(input) =>
        /\ pc \notin {"lexical", "syntax"}
        /\ IsPrefix(trace, EmptyProgramTrace)
        /\ pc = "ok" <=> trace = EmptyProgramTrace

C5_Witness ==
    /\ WsOnly(input)
    /\ Len(input) >= 2
    /\ NL \in Range(input)
    /\ pc = "ok"
    /\ trace = EmptyProgramTrace

\* a typed declaration with initializer followed by a write statement
IsDeclWrite(t) ==
    /\ Len(t) >= 7
    /\ t[1] \in {"Int", "Real"}
    /\ t[2] = "Ident"
    /\ t[3] = "Gets"
    /\ t[Len(t)] = "End"
    /\ \E j \in G_expr(t, 4) :
          /\ j < Len(t)
          /\ t[j] = "Write"
          /\ Len(t) \in G_expr(t, j + 1)

DeclPredictions ==
    { Predict("stmt --> int ident gets expr"),
      Predict("stmt --> real ident gets expr") }

\* C6: a typed declaration with initializer followed by a write statement
\* (such as `int x := 3 write x`) is accepted without error: the trace has
\* the prediction of the typed declaration, later the prediction of
\* `write expr`, and ends with the end-of-stream match.
C6_DeclThenWrite ==
    (pc \in Final /\ IsDeclWrite(Categories(InputTokens))) =>
        /\ pc = "ok"
        /\ \E i, j \in DOMAIN trace :
              /\ i < j
              /\ trace[i] \in DeclPredictions
              /\ trace[j] = Predict("stmt --> write expr")
        /\ trace[Len(trace)] = MatchedEnd

C6_Witness ==
    /\ input = Example1
    /\ pc = "ok"
    /\ trace[3] = Predict("stmt --> int ident gets expr")
    /\ trace[Len(trace)] = MatchedEnd

NestedBlockInputs == {Example5, NestedIfDo}

BlockOpen ==
    { Predict("stmt --> if comp stmt_list fi"),
      Predict("stmt --> do stmt_list od") }

BlockClose == {Matched("Fi", <<>>), Matched("Od", <<>>)}

\* C7: nested block constructs are accepted: an input such as
\* `do if x == y write x fi od` parses with no error, and each block's
\* `predict stmt` line precedes the lines of its body, which precede the
\* block's closing `matched Fi` / `matched Od` line.
C7_NestedBlocksAccepted ==
    (pc \in Final /\ input \in NestedBlockInputs) =>
        /\ pc = "ok"
        /\ \E o1, o2, c2, c1 \in DOMAIN trace :
              /\ o1 < o2 /\ o2 < c2 /\ c2 < c1
              /\ trace[o1] \in BlockOpen
              /\ trace[o2] \in BlockOpen \ {trace[o1]}
              /\ trace[c2] \in BlockClose
              /\ trace[c1] \in BlockClose \ {trace[c2]}
              /\ \A k \in (o2 + 1)..(c2 - 1) :
                    trace[k] \notin BlockOpen \cup BlockClose

\* an if statement whose condition is a lone expression followed by `fi`
IsIfLoneExpr(t) ==
    /\ Len(t) >= 3
    /\ t[1] = "If"
    /\ \E j \in G_expr(t, 2) : j <= Len(t) /\ t[j] = "Fi"

BodyLines ==
    { Predict("stmt_list --> stmt stmt_list"),
      Predict("stmt_list --> epsilon"),
      Matched("Fi", <<>>) }

\* C8: an if statement whose condition is a lone expression (such as
\* `if x fi`) is rejected with a syntax error: the trace has
\* `predict stmt --> if comp stmt_list fi` and
\* `predict comp --> expr comp_op expr`, the failure occurs before comp
\* returns (no stmt_list prediction for the body, no `matched Fi`), and the
\* reported line is the line of the token after the expression (`fi`).
C8_IfWithoutComparison ==
    (pc \in Final /\ IsIfLoneExpr(Categories(InputTokens))) =>
        /\ pc = "syntax"
        /\ \E i, j \in DOMAIN trace :
              /\ i < j
              /\ trace[i] = Predict("stmt --> if comp stmt_list fi")
              /\ trace[j] = Predict("comp --> expr comp_op expr")
              /\ \A k \in (j + 1)..Len(trace) : trace[k] \notin BodyLines
        /\ Call("comp_op") \in Range(stack)
        /\ next_tok.tp = "Fi"
        /\ diag = SyntaxError(SourceLine(TokStart))

C8_Witness ==
    /\ IsIfLoneExpr(Categories(InputTokens))
    /\ pc = "syntax"
    /\ next_tok.tp = "Fi"
    /\ diag.line = 2

LeadOps == {":", "=", "!"}

\* the lexical failure is that of `:`, `=` or `!` without a following `=`
LeadOpFailure == pc = "lexical" /\ FirstBad # 0 /\ input[FirstBad] \in LeadOps

\* the diagnostic names the leading operator and the character found
LeadOpDiagnostic ==
    /\ diag = ExpectedEq(input[FirstBad], CharAfter(FirstBad))
    /\ diag.got = next_char.ch
    /\ diag.code = CodePoint(next_char.ch)

\* C9 (as stated): when scan() consumes `:`, `=` or `!` and the next
\* character is not `=`, scanning fails with a lexical error naming the
\* leading operator and the character found with its code point; no token
\* is returned, and the failure is raised while the parser advances past
\* the previously matched token, whose `matched` line is the last trace line.
C9_LeadOpFailsInEat ==
    LeadOpFailure => (LeadOpDiagnostic /\ LastMatchIsLookahead)

\* C9 (amended): as stated, except that when the operator is the first
\* token of the input the failure is raised by parse()'s priming scan: the
\* trace is then empty and the lookahead is still the Begin dummy.
C9_LeadOpFails ==
    LeadOpFailure =>
        /\ LeadOpDiagnostic
        /\ IF WsOnly(SubSeq(input, 1, FirstBad - 1))
           THEN trace = <<>> /\ next_tok.tp = "Begin"
           ELSE LastMatchIsLookahead

C9_Witness ==
    /\ input = Example3
    /\ pc = "lexical"
    /\ diag = ExpectedEq(":", " ")
    /\ trace[Len(trace)] = Matched("Ident", <<"x">>)

\* C10: when scan() meets a character that starts no token, the lexical
\* diagnostic names that unrecognized character with its code point.
C10_UnexpectedNamesCharacter ==
    (pc = "lexical" /\ FirstBad # 0 /\ input[FirstBad] \notin LeadOps) =>
        diag = Unexpected(input[FirstBad])

-----------------------------------------------------------------------------
(* Token texts *)

NoWhitespace(text) == \A i \in DOMAIN text : ~is_whitespace(text[i])

\* the text shown by a `matched` line, after its `: `
ShownText(ln) == SubSeq(ln.suffix, 3, Len(ln.suffix))

\* C11: the text of every token scan() returns holds no whitespace character
\* and no line terminator: the token lies on one line (the character after
\* it is still on the token's line), and no `matched` line shows whitespace
\* in its text.
C11_NoWhitespaceInToken ==
    /\ pc \in {"running", "ok", "syntax"} =>
          /\ NoWhitespace(next_tok.text)
          /\ next_tok.tp \notin {"Begin", "End"} =>
                next_char.line = next_tok.line
    /\ \A i \in DOMAIN trace :
          trace[i].kind = "matched" => NoWhitespace(ShownText(trace[i]))

\* a token of several characters on the second line, a blank or a line
\* terminator right after it
C11_Witness ==
    /\ pc = "running"
    /\ next_tok.tp = "Ident"
    /\ Len(next_tok.text) >= 2
    /\ next_tok.line = 2
    /\ is_whitespace(next_char.ch)

-----------------------------------------------------------------------------
(* Lines and columns of the raw input *)

\* number of characters of `in` before its line ln (lines are numbered from
\* 1 and end at a line terminator)
LineStart(in, ln) ==
    IF ln = 1 THEN 0
    ELSE CHOOSE p \in DOMAIN in :
            /\ in[p] = NL
            /\ Cardinality({q \in 1..p : in[q] = NL}) = ln - 1

\* offset in `in` of the character at byte column col of line ln
OffsetOf(in, ln, col) ==
    LineStart(in, ln)
        + CharIndexAt(SubSeq(in, LineStart(in, ln) + 1, Len(in)), col)

\* the n characters of `in` from line ln, column col on
RunAt(in, ln, col, n) ==
    SubSeq(in, OffsetOf(in, ln, col), OffsetOf(in, ln, col) + n - 1)

\* C12: a `matched` line has a `: <text>` suffix exactly when its category
\* is Ident, ILit or RLit, and the text is the run of input characters at
\* the line and column recorded in the token it matches (the k-th matched
\* line matches the k-th token of the input).
C12_MatchedText ==
    \A i \in DOMAIN trace :
        trace[i].kind = "matched" =>
            LET k == Cardinality({j \in 1..i : trace[j].kind = "matched"})
                tok == InputTokens[k]
            IN  /\ trace[i].what = tok.tp
                /\ trace[i].suffix =
                      IF tok.tp \in {"Ident", "ILit", "RLit"}
                      THEN <<":", " ">> \o
                           RunAt(input, tok.line, tok.col, Len(tok.text))
                      ELSE <<>>
                /\ tok.tp \in {"Ident", "ILit", "RLit"} => tok.text # <<>>

\* a literal with a `.` has been matched with its text, an operator without
C12_Witness ==
    /\ \E i \in DOMAIN trace :
          trace[i] = Matched("ILit", <<"3", ".", "5">>)
    /\ \E i \in DOMAIN trace :
          trace[i].kind = "matched" /\ trace[i].what = "Minus"
                                   /\ trace[i].suffix = <<>>

-----------------------------------------------------------------------------
(* Errors and termination *)

Aborted == pc \in {"lexical", "syntax"}

\* C13: the first error ends the run. No step is taken once the run has
\* aborted (no line is printed, no token or character pulled), every step
\* keeps the lines already printed, and a diagnostic exists exactly when the
\* run has aborted, so that one diagnostic follows the trace.
C13_FirstErrorEndsRun ==
    [][/\ ~Aborted
       /\ diag = NoDiag
       /\ IsPrefix(trace, trace')
       /\ Aborted' <=> diag' # NoDiag]_vars

\* a lexical error raised by the scan() of eat(), after its matched line
C13_Witness ==
    /\ pc = "lexical"
    /\ diag # NoDiag
    /\ Len(trace) >= 2
    /\ trace[Len(trace)].kind = "matched"

\* C14: on every input parse() terminates, by returning or by aborting.
C14_Terminates == <>(pc \in Final)

\* a run that has returned after going twice through the recursion of
\* term_tail and once through that of stmt_list and of factor_tail
C14_Witness ==
    /\ pc = "ok"
    /\ Cardinality({i \in DOMAIN trace :
           trace[i] = Predict("term_tail --> add_op term term_tail")}) >= 2
    /\ \E i \in DOMAIN trace :
           trace[i] = Predict("factor_tail --> mul_op factor factor_tail")
    /\ \E i \in DOMAIN trace :
           trace[i] = Predict("stmt_list --> stmt stmt_list")

-----------------------------------------------------------------------------
(* FOLLOW sets of the documented grammar (section 4.3 of the specification) *)

Prod(lhs, rhs) == [lhs |-> lhs, rhs |-> rhs]

Grammar ==
    { Prod("program", <<"stmt_list", "End">>),
      Prod("stmt_list", <<"stmt", "stmt_list">>),
      Prod("stmt_list", <<>>),
      Prod("type", <<"Int">>),
      Prod("type", <<"Real">>),
      Prod("type", <<>>),
      Prod("stmt", <<"Ident", "Gets", "expr">>),
      Prod("stmt", <<"Read", "type", "Ident">>),
      Prod("stmt", <<"Write", "expr">>),
      Prod("stmt", <<"If", "comp", "stmt_list", "Fi">>),
      Prod("stmt", <<"Do", "stmt_list", "Od">>),
      Prod("stmt", <<"Check", "comp">>),
      Prod("stmt", <<"Int", "Ident", "Gets", "expr">>),
      Prod("stmt", <<"Real", "Ident", "Gets", "expr">>),
      Prod("comp", <<"expr", "comp_op", "expr">>),
      Prod("expr", <<"term", "term_tail">>),
      Prod("term", <<"factor", "factor_tail">>),
      Prod("term_tail", <<"add_op", "term", "term_tail">>),
      Prod("term_tail", <<>>),
      Prod("factor", <<"Ident">>),
      Prod("factor", <<"ILit">>),
      Prod("factor", <<"RLit">>),
      Prod("factor", <<"LParen", "expr", "RParen">>),
      Prod("factor_tail", <<"mul_op", "factor", "factor_tail">>),
      Prod("factor_tail", <<>>),
      Prod("comp_op", <<"Greater">>),
      Prod("comp_op", <<"Lesser">>),
      Prod("comp_op", <<"EqualTo">>),
      Prod("comp_op", <<"NEqualTo">>),
      Prod("comp_op", <<"GreaterEq">>),
      Prod("comp_op", <<"LesserEq">>),
      Prod("add_op", <<"Plus">>),
      Prod("add_op", <<"Minus">>),
      Prod("mul_op", <<"Times">>),
      Prod("mul_op", <<"DivBy">>) }

Nonterminals == {p.lhs : p \in Grammar}

\* the nonterminals that derive the empty sequence
RECURSIVE NullableFrom(_)
NullableFrom(N) ==
    LET N1 == N \cup {p.lhs : p \in {q \in Grammar :
                          \A i \in DOMAIN q.rhs : q.rhs[i] \in N}}
    IN  IF N1 = N THEN N ELSE NullableFrom(N1)

Nullable == NullableFrom({})

\* the terminals that start the sequence of symbols w, F giving those that
\* start each nonterminal
FirstOfSeq(F, w) ==
    UNION { IF w[i] \in Nonterminals THEN F[w[i]] ELSE {w[i]} :
            i \in {j \in DOMAIN w : \A k \in 1..(j - 1) : w[k] \in Nullable} }

RECURSIVE FirstFrom(_)
FirstFrom(F) ==
    LET F1 == [A \in Nonterminals |->
                 F[A] \cup UNION {FirstOfSeq(F, p.rhs) :
                                     p \in {q \in Grammar : q.lhs = A}}]
    IN  IF F1 = F THEN F ELSE FirstFrom(F1)

First == FirstFrom([A \in Nonterminals |-> {}])

\* what an occurrence of A at position i of production p lets follow A
FollowAt(Fo, p, i) ==
    LET rest == SubSeq(p.rhs, i + 1, Len(p.rhs))
    IN  FirstOfSeq(First, rest)
            \cup (IF \A k \in DOMAIN rest : rest[k] \in Nullable
                  THEN Fo[p.lhs] ELSE {})

RECURSIVE FollowFrom(_)
FollowFrom(Fo) ==
    LET Fo1 == [A \in Nonterminals |->
                  Fo[A] \cup UNION {
                      UNION {FollowAt(Fo, p, i) :
                             i \in {j \in DOMAIN p.rhs : p.rhs[j] = A}} :
                      p \in Grammar}]
    IN  IF Fo1 = Fo THEN Fo ELSE FollowFrom(Fo1)

Follow == FollowFrom([A \in Nonterminals |-> {}])

\* the production the operation of a nullable nonterminal selects on tp
NullableMatch(nt, tp) ==
    CASE nt = "stmt_list" -> stmt_list_match(tp)
      [] nt = "types" -> types_match(tp)
      [] nt = "term_tail" -> term_tail_match(tp)
      [] nt = "factor_tail" -> factor_tail_match(tp)

\* the name the grammar gives to the nonterminal of an operation
GrammarName(nt) == IF nt = "types" THEN "type" ELSE nt

\* C15: whenever the operation of stmt_list, type, term_tail or factor_tail
\* runs, it selects the epsilon production exactly when the lookahead
\* category is in the FOLLOW set of that nonterminal in the documented
\* grammar.
C15_EpsilonIsFollow ==
    (/\ pc = "running"
     /\ stack # <<>>
     /\ Head(stack).k = "call"
     /\ Head(stack).a \in {"stmt_list", "types", "term_tail", "factor_tail"})
    => LET sel == NullableMatch(Head(stack).a, next_tok.tp)
       IN  (sel.ok /\ sel.body = <<>>)
               <=> next_tok.tp \in Follow[GrammarName(Head(stack).a)]

-----------------------------------------------------------------------------
(* The reader and the scanner, call by call *)

\* C16: once getc() has returned the end sentinel, the next getc() returns
\* it again with the same line and column and leaves the reader as it is;
\* once scan() has returned End, the next scan() returns End.
C16_SentinelIsPermanent ==
    /\ next_char.ch = EOF =>
          /\ getc(RdState).sc = next_char
          /\ getc(RdState).rd = RdState
    /\ (pc = "scan" /\ next_tok.tp = "End") =>
          /\ scan(ScState).err = NoDiag
          /\ scan(ScState).tok.tp = "End"

\* End has been returned at the end of a non-empty input
C16_Witness ==
    /\ pc = "scan"
    /\ next_tok.tp = "End"
    /\ next_char.ch = EOF
    /\ count = 0
    /\ Len(input) > 0

\* the line the reader fetched last: the characters of the buffer that lie
\* within the count bytes read_line returned
Fetched == SubSeq(buf, 1, Cardinality({k \in DOMAIN buf : ByteOffset(buf, k) < count}))

\* C17: a refill appends a line terminator exactly when the fetched line
\* does not end in one, so the buffered line is the fetched line and ends in
\* exactly one line terminator.
C17_OneTerminatorPerLine ==
    (line >= 1 /\ count > 0) =>
        /\ buf = IF Fetched[Len(Fetched)] = NL THEN Fetched
                 ELSE Append(Fetched, NL)
        /\ buf[Len(buf)] = NL
        /\ Len(buf) >= 2 => buf[Len(buf) - 1] # NL

\* the keywords and their categories
KeywordTable ==
    { <<kw_read, "Read">>, <<kw_write, "Write">>, <<kw_if, "If">>,
      <<kw_fi, "Fi">>, <<kw_do, "Do">>, <<kw_od, "Od">>,
      <<kw_check, "Check">>, <<kw_int, "Int">>, <<kw_real, "Real">>,
      <<<<"t", "r", "u", "n", "c">>, "Trunc">>,
      <<<<"f", "l", "o", "a", "t">>, "Float">> }

\* offset in the input of the first character of the token scan() returned
\* last, from the line and column recorded in the token
RecordedStart == OffsetOf(input, next_tok.line, next_tok.col)

\* the lookahead character is the one right after the token, on its line
LookaheadFollowsToken ==
    /\ next_char.line = next_tok.line
    /\ next_char.col = next_tok.col + ByteLen(next_tok.text)

\* C18: a token that starts with an alphabetic character is the maximal run
\* of alphanumeric characters and `_` found at its position in the input,
\* all of it consumed; its category is that of the keyword the whole run
\* equals, Ident if it equals none.
C18_WordIsMaximalRun ==
    (/\ pc = "scan"
     /\ next_tok.text # <<>>
     /\ is_alphabetic(next_tok.text[1]))
    => /\ next_tok.text =
             SubSeq(input, RecordedStart,
                    RunEnd(input, RecordedStart,
                           LAMBDA x : x = "_" \/ is_alphanumeric(x)) - 1)
       /\ LookaheadFollowsToken
       /\ next_tok.tp =
             IF \E p \in KeywordTable : p[1] = next_tok.text
             THEN (CHOOSE p \in KeywordTable : p[1] = next_tok.text)[2]
             ELSE "Ident"

\* `reader` has been returned as one identifier
C18_Witness ==
    /\ pc = "scan"
    /\ next_tok.tp = "Ident"
    /\ next_tok.text = kw_read \o <<"e", "r">>

\* C19: a token that starts with a decimal digit is the maximal run of
\* digits and `.` found at its position in the input, all of it consumed,
\* and its category is ILit; no token of category RLit is ever returned.
C19_NumberIsILit ==
    /\ next_tok.tp # "RLit"
    /\ (/\ pc = "scan"
        /\ next_tok.text # <<>>
        /\ is_ascii_digit(next_tok.text[1]))
       => /\ next_tok.text =
                SubSeq(input, RecordedStart,
                       RunEnd(input, RecordedStart,
                              LAMBDA x : x = "." \/ is_ascii_digit(x)) - 1)
          /\ LookaheadFollowsToken
          /\ next_tok.tp = "ILit"

\* `3.5.2` has been returned as one ILit
C19_Witness ==
    /\ pc = "scan"
    /\ next_tok.tp = "ILit"
    /\ next_tok.text = <<"3", ".", "5", ".", "2">>

\* offset in the input of the last character of the token scan() returned
\* last
RecordedEnd == RecordedStart + Len(next_tok.text) - 1

\* scan() has returned a token
TokenReturned == pc = "scan" /\ next_tok.tp # "Begin"

\* the reader has not moved backward
ReaderMovesForward ==
    /\ Delivered' >= Delivered
    /\ line' > line \/ (line' = line /\ next_col' >= next_col)

\* the lookahead is the sentinel, or the character of the input right after
\* the token, the last one the reader has delivered
LookaheadIsInputOrSentinel ==
    TokenReturned =>
        \/ next_char.ch = EOF
        \/ /\ next_tok.tp # "End"
           /\ RecordedEnd < Len(input)
           /\ next_char.ch = input[RecordedEnd + 1]
           /\ LookaheadFollowsToken
           /\ Delivered = RecordedEnd + 1

\* C20 as stated: after every scan() that returns a token the lookahead is
\* the input character right after the token or the end sentinel, nothing
\* beyond it has been delivered, and the reader has not moved backward.
C20_LookaheadIsNextInputChar ==
    [][LookaheadIsInputOrSentinel' /\ ReaderMovesForward]_vars

\* the lookahead after the token scan() returned: the sentinel after End;
\* else the character right after the token, which is the next character of
\* the input or, after the last character of an input that does not end in a
\* line terminator, the terminator the reader appended; the reader has
\* delivered the input up to that character and no further
LookaheadAfterToken ==
    TokenReturned =>
        IF next_tok.tp = "End" THEN next_char.ch = EOF
        ELSE /\ LookaheadFollowsToken
             /\ IF RecordedEnd < Len(input)
                THEN /\ next_char.ch = input[RecordedEnd + 1]
                     /\ Delivered = IF next_char.ch = EOF THEN RecordedEnd
                                    ELSE RecordedEnd + 1
                ELSE /\ next_char.ch = NL
                     /\ Delivered = RecordedEnd

\* C20 (amended): after every scan() that returns a token the lookahead is
\* the input character right after the token, or the line terminator the
\* reader appended when the token ends an input without a final terminator,
\* or the end sentinel; nothing beyond it has been delivered, and the reader
\* has not moved backward.
C20_OneLookahead ==
    [][LookaheadAfterToken' /\ ReaderMovesForward]_vars

\* a token that ends an input without a final line terminator: the lookahead
\* is the appended terminator
C20_Witness ==
    /\ TokenReturned
    /\ next_tok.tp = "Ident"
    /\ RecordedEnd = Len(input)
    /\ next_char.ch = NL
    /\ next_tok.line = 2

-----------------------------------------------------------------------------
(* The parser against the token sequence of the input *)

\* C21: whenever parse() has returned, the input scans without a panic up
\* to End and the categories of its tokens, End included, are a sentence of
\* the documented grammar.
C21_AcceptedIsSentence == pc = "ok" => IsSentence(input)

\* parse() has returned on a program of two statements with a parenthesised
\* expression
C21_Witness ==
    /\ pc = "ok"
    /\ Len(InputTokens) >= 12
    /\ \E i \in DOMAIN trace : trace[i] = Matched("RParen", <<>>)
    /\ Cardinality({i \in DOMAIN trace :
           trace[i] = Predict("stmt_list --> stmt stmt_list")}) >= 2

\* the categories of the `matched` lines printed so far, in order
MatchedCategories ==
    LET m == SelectSeq(trace, LAMBDA l : l.kind = "matched")
    IN  [i \in DOMAIN m |-> m[i].what]

\* the tokens that the first n calls of scan() return, as far as they return
RECURSIVE scan_first(_, _, _)
scan_first(s, n, toks) ==
    IF n = 0 THEN toks
    ELSE LET r == scan(s)
         IN  IF r.err # NoDiag THEN toks
             ELSE scan_first(r.s, n - 1, Append(toks, r.tok))

\* the first n tokens of the input (End again after End)
FirstTokens(n) == scan_first(NewScanner(input), n, <<>>)

\* the parser has a lookahead: it runs, has returned, or has aborted with a
\* syntax error
HasLookahead == pc \in {"running", "ok", "syntax"}

\* C22 as stated: at every point of every run the matched categories are
\* the categories of the first tokens scan() produces for the input, in
\* order, and once parse() has primed the lookahead it is never the Begin
\* dummy and always the token right after the last matched one.
C22_LookaheadAlwaysFollows ==
    LET m == MatchedCategories
        toks == FirstTokens(Len(m) + 1)
    IN  /\ IsPrefix(m, Categories(toks))
        /\ HasLookahead => next_tok.tp # "Begin"
        /\ next_tok.tp # "Begin" =>
              (Len(toks) = Len(m) + 1 /\ next_tok = toks[Len(m) + 1])

\* C22 (amended): at every point of every run the matched categories are
\* the categories of the first tokens scan() produces for the input, in
\* order; while the parser runs, when it has returned and when it has
\* aborted with a syntax error, the lookahead is the token right after the
\* last matched one (End again after End), never the Begin dummy; when a
\* scan() has panicked, no token follows the matched ones and the lookahead
\* is still the token matched last, the Begin dummy if the panic was in
\* parse().
C22_MatchedIsPrefix ==
    LET m == MatchedCategories
        toks == FirstTokens(Len(m) + 1)
    IN  /\ m # <<>> => IsPrefix(m, Categories(toks))
        /\ HasLookahead =>
              (Len(toks) = Len(m) + 1 /\ next_tok = toks[Len(m) + 1])
        /\ pc = "lexical" =>
              /\ Len(toks) = Len(m)
              /\ next_tok = IF toks = <<>> THEN Token("Begin", <<>>, 0, 0)
                            ELSE toks[Len(toks)]

\* the scan() of an eat() has panicked after two matched tokens
C22_Witness ==
    /\ pc = "lexical"
    /\ Len(MatchedCategories) = 2
    /\ FirstTokens(3) = FirstTokens(2)
    /\ next_tok = FirstTokens(2)[2]

====
